---------------------------- MODULE Spec2Model ----------------------------
(***************************************************************************)
(* guess-note (src/src/main.rs): an ear-training game.  The main thread    *)
(* validates the note range, opens the MIDI connections, then loops:       *)
(* generate a target note, play it, capture the player's note from the     *)
(* mpsc channel fed by the MIDI input callback, optionally confirm, and    *)
(* print the outcome.  The MIDI callback runs on a library thread and      *)
(* interleaves with every step of the main thread.                         *)
(***************************************************************************)
EXTENDS Integers, Sequences, FiniteSets, TLC

VARIABLES
    pc,          \* position of the main thread in main()
    result,      \* "running", or the error main() ended with
    args,        \* parsed Args: min_note, max_note, non_interactive
    opened,      \* MIDI clients / connections created so far
    tx,          \* sender half of the channel: "none", "live", "dropped"
    queue,       \* the mpsc channel's buffered notes, oldest first
    guess_note,  \* target of the current round
    note,        \* `note` of the current round (NoNote before a capture)
    last,        \* accumulator of rx.try_iter().last()
    stdout,      \* the last thing printed
    sent,        \* messages sent on conn_out during the current round
    rounds,      \* rounds started so far
    plays,       \* play_guess_note!() invocations in the current round
    captures,    \* capture_next_note!() completions in the current round
    prompts,     \* confirmation prompts printed in the current round
    reads,       \* read_line!() calls in the current round
    nos,         \* non-"y" confirmation answers in the current round
    nCalls,      \* raw MIDI messages delivered to the input callback
    pushed,      \* history: every note the callback sent on tx, in order
    returned,    \* history: index in `pushed` of each note a capture returned
    roundMark,   \* Len(pushed) when the round's first NOTE_ON was sent
    capKind,     \* how the last capture returned: "drain" or "recv"
    callMark,    \* history: Len(pushed) when the latest capture call began
    seenMark     \* history: callMark of the latest capture call that returned

vars == << pc, result, args, opened, tx, queue, guess_note, note, last,
           stdout, sent, rounds, plays, captures, prompts, reads, nos,
           nCalls, pushed, returned, roundMark, capKind, callMark,
           seenMark >>

(***************************************************************************)
(* Program constants                                                       *)
(***************************************************************************)
NOTE_ON == 144
NOTE_OFF == 128
VELOCITY == 64
SIGN_COUNT == 12
SIGNS == << "C", "C#", "D", "D#", "E", "F", "F#", "G", "G#", "A", "A#", "B" >>

\* Option::None for an u8 note
NoNote == -1

\* f32 has a 24 bit significand; rand::random::<f32>() is k * 2^-24
F32_MANTISSA == 24

(***************************************************************************)
(* Bounds of the model                                                     *)
(***************************************************************************)
MaxRounds == 2
MaxCalls == 3
MaxRetries == 2
MaxPorts == 1
RandEdge == 2

\* (min_note, max_note) pairs given on the command line
Ranges ==
    { <<36, 96>>, <<60, 60>>, <<96, 36>>, <<0, 255>>, <<200, 255>>, <<59, 60>> }

\* a grid of note values for checking the target generation on its own
GridNotes ==
    { n \in 0..255 : n % 4 = 0 \/ n % 12 = 0 \/ n \in {1, 59, 127, 129, 254, 255} }

\* numerators k of the random f32 k * 2^-24 in [0, 1)
RandSamples ==
    {0, 2^(F32_MANTISSA - 1)} \cup { 2^F32_MANTISSA - i : i \in 1..RandEdge }

\* notes and velocities the player's device sends
InNotes == {36, 60}
InVelocities == {0, 64}
\* raw messages: note-on, note-off and control change (0xB0) with a note and
\* a velocity byte, a one byte clock (0xF8), a two byte program change (0xC0)
RawMessages ==
    { <<s, n, v>> : s \in {NOTE_ON, NOTE_OFF, 176},
                    n \in InNotes, v \in InVelocities }
    \cup { <<248>>, <<192, 36>> }

\* lines the console can deliver to a confirmation prompt (<< >> is EOF)
ConfirmLines ==
    { <<"y", "\n">>, <<"Y", "\n">>, <<" ", "y", " ", "\r", "\n">>,
      <<"n", "\n">>, <<"\n">>, << >>, <<"y", "e", "s", "\n">> }

\* lines the console can deliver to the port selection prompt
PortLines == { <<"0", "\n">>, <<" ", "1", "\n">>, <<"x", "\n">>, << >> }

\* a failed stdin.read_line
IoError == <<"io error">>

(***************************************************************************)
(* Pure functions                                                          *)
(***************************************************************************)
\* format!("{:>2}{}", SIGNS[x % 12], i16::from(x) / 12 - 1)
PadLeft2(s) == IF Len(s) < 2 THEN " " \o s ELSE s

\* faulty variant: the octave is counted from 0 instead of -1
NameOctaveFromZero(x) ==
    PadLeft2(SIGNS[(x % SIGN_COUNT) + 1]) \o ToString(x \div SIGN_COUNT)

note_number_to_sign(x) ==
    PadLeft2(SIGNS[(x % SIGN_COUNT) + 1]) \o ToString((x \div SIGN_COUNT) - 1)

\* str::trim and str::to_lowercase on a line given as a sequence of characters
IsSpace(c) == c \in {" ", "\n", "\r", "\t"}

RECURSIVE TrimStart(_)
TrimStart(s) ==
    IF s # << >> /\ IsSpace(Head(s)) THEN TrimStart(Tail(s)) ELSE s

RECURSIVE TrimEnd(_)
TrimEnd(s) ==
    IF s # << >> /\ IsSpace(s[Len(s)])
    THEN TrimEnd(SubSeq(s, 1, Len(s) - 1)) ELSE s

Trim(s) == TrimEnd(TrimStart(s))

LowerChar(c) ==
    CASE c = "Y" -> "y" [] c = "N" -> "n" [] c = "E" -> "e" [] c = "S" -> "s"
      [] OTHER -> c

ToLowercase(s) == [i \in 1..Len(s) |-> LowerChar(s[i])]

\* faulty variant: an answer that begins with "y" confirms
IsYesPrefix(line) ==
    LET t == ToLowercase(Trim(line)) IN t # << >> /\ t[1] = "y"

\* read_line!().trim().to_lowercase() == "y"
IsYes(line) == ToLowercase(Trim(line)) = <<"y">>

\* str::parse::<usize> of a trimmed line: -1 when it is not a number
Digits == <<"0", "1", "2", "3", "4", "5", "6", "7", "8", "9">>
IsDigit(c) == \E i \in 1..10 : Digits[i] = c
DigitVal(c) == (CHOOSE i \in 1..10 : Digits[i] = c) - 1

RECURSIVE DigitsVal(_)
DigitsVal(s) ==
    IF s = << >> THEN 0
    ELSE DigitsVal(SubSeq(s, 1, Len(s) - 1)) * 10 + DigitVal(s[Len(s)])

ParseUsize(s) ==
    LET body == IF s # << >> /\ Head(s) = "+" THEN Tail(s) ELSE s
    IN  IF body # << >> /\ \A i \in 1..Len(body) : IsDigit(body[i])
        THEN DigitsVal(body) ELSE -1

(***************************************************************************)
(* f32 arithmetic of the target generation.  A non-negative real is held   *)
(* exactly as <<hi, lo>> = (hi * 2^16 + lo) * 2^-24, with 0 <= lo < 2^16,  *)
(* so that no intermediate exceeds 31 bits.                                *)
(***************************************************************************)
Limb == 2^16

RECURSIVE BitLen(_)
BitLen(n) == IF n = 0 THEN 0 ELSE 1 + BitLen(n \div 2)

\* the exact product (k * 2^-24) * d of a random f32 and an integer d < 2^8
WMul(k, d) ==
    LET t == (k % Limb) * d
    IN  << (k \div Limb) * d + (t \div Limb), t % Limb >>

\* the exact sum of two wide numbers
WAdd(a, b) ==
    << a[1] + b[1] + ((a[2] + b[2]) \div Limb), (a[2] + b[2]) % Limb >>

\* an integer n < 2^8 as a wide number (u8 as f32 is exact)
WInt(n) == << n * 2^(F32_MANTISSA - 16), 0 >>

\* round to nearest, ties to even, to a 24 bit significand
RoundF32(w) ==
    LET len == IF w[1] = 0 THEN BitLen(w[2]) ELSE 16 + BitLen(w[1])
        s   == len - F32_MANTISSA
    IN  IF s <= 0 THEN w
        ELSE LET q    == w[1] * 2^(16 - s) + (w[2] \div 2^s)
                 r    == w[2] % 2^s
                 half == 2^(s - 1)
                 up   == r > half \/ (r = half /\ q % 2 = 1)
                 q2   == IF up THEN q + 1 ELSE q
             IN  << q2 \div 2^(16 - s), (q2 % 2^(16 - s)) * 2^s >>

\* f32 as u8: truncate toward zero, saturate at u8::MAX
F32AsU8(w) ==
    LET v == w[1] \div 2^(F32_MANTISSA - 16) IN IF v > 255 THEN 255 ELSE v

\* faulty variant: the offset min_note is not added
GuessNoteNoOffset(k, min_note, max_note) ==
    F32AsU8(RoundF32(WMul(k, max_note - min_note)))

\* rand::random::<f32>() * (max_note - min_note) as f32 + min_note as f32,
\* then `as u8`, for the random value k * 2^-24
GuessNote(k, min_note, max_note) ==
    F32AsU8(RoundF32(WAdd(RoundF32(WMul(k, max_note - min_note)),
                          WInt(min_note))))

(***************************************************************************)
(* Initial state: the process has parsed its arguments (line 61)           *)
(***************************************************************************)
Init ==
    /\ pc = "check_range"
    /\ result = "running"
    /\ args \in { [min_note |-> r[1], max_note |-> r[2], non_interactive |-> b] :
                    r \in Ranges, b \in BOOLEAN }
    /\ opened = {}
    /\ tx = "none"
    /\ queue = << >>
    /\ guess_note = NoNote
    /\ note = NoNote
    /\ last = NoNote
    /\ stdout = [kind |-> "nothing"]
    /\ sent = << >>
    /\ rounds = 0
    /\ plays = 0
    /\ captures = 0
    /\ prompts = 0
    /\ reads = 0
    /\ nos = 0
    /\ nCalls = 0
    /\ pushed = << >>
    /\ returned = << >>
    /\ roundMark = 0
    /\ capKind = "none"
    /\ callMark = 0
    /\ seenMark = 0

\* main() returns Err(e) or panics: the process ends
Fail(e) == pc' = "done" /\ result' = e

roundVars == << guess_note, note, last, sent, rounds, plays, captures,
                prompts, reads, nos, roundMark, capKind >>
bridgeVars == << tx, queue, nCalls, pushed, returned, callMark, seenMark >>

(***************************************************************************)
(* Startup, lines 63-107                                                   *)
(***************************************************************************)
\* faulty variant: a range of one note is rejected too
RangeIsEmptyOrSingle == args.min_note >= args.max_note

\* if args.min_note > args.max_note { bail!("Note range cannot be empty") }
RangeIsEmpty == args.min_note > args.max_note

CheckRange ==
    /\ pc = "check_range"
    /\ IF RangeIsEmpty
       THEN Fail("ConfigurationError")
       ELSE pc' = "midi_new" /\ result' = result
    /\ UNCHANGED << args, opened, stdout, roundVars, bridgeVars >>

\* MidiInput::new(..)?; MidiOutput::new(..)?
MidiNew ==
    /\ pc = "midi_new"
    /\ \E ok \in BOOLEAN :
         IF ok
         THEN /\ pc' = "select_port"
              /\ result' = result
              /\ opened' = opened \cup {"midi_in", "midi_out"}
         ELSE Fail("InitError") /\ opened' = opened
    /\ UNCHANGED << args, stdout, roundVars, bridgeVars >>

\* lines 70-91: the port number from --port-no or from the console, then
\* out_ports[port_no] and in_ports[port_no].  portArg = -1 is None.
PortChoice(portArg, nOut, line) ==
    IF portArg # -1 THEN [err |-> "none", port |-> portArg, asked |-> FALSE]
    ELSE IF nOut = 0 THEN [err |-> "DeviceError", port |-> -1, asked |-> FALSE]
    ELSE IF line = IoError THEN [err |-> "IoError", port |-> -1, asked |-> TRUE]
    ELSE IF ParseUsize(Trim(line)) = -1
         THEN [err |-> "InputParseError", port |-> -1, asked |-> TRUE]
    ELSE [err |-> "none", port |-> ParseUsize(Trim(line)), asked |-> TRUE]

SelectPort ==
    /\ pc = "select_port"
    /\ \E portArg \in -1..MaxPorts, nOut \in 0..MaxPorts, nIn \in 0..MaxPorts,
          line \in PortLines \cup {IoError} :
         LET c == PortChoice(portArg, nOut, line)
         IN  /\ stdout' = IF c.asked THEN [kind |-> "ports", n |-> nOut]
                          ELSE stdout
             /\ IF c.err # "none" THEN Fail(c.err)
                ELSE IF c.port >= nOut \/ c.port >= nIn
                     THEN Fail("IndexPanic")
                ELSE pc' = "connect_in" /\ result' = result
    /\ UNCHANGED << args, opened, roundVars, bridgeVars >>

\* let (tx, rx) = mpsc::channel(); let _conn_in = midi_in.connect(.., closure
\* owning tx, ..);  the Result is never inspected.  A failed connect drops the
\* closure and tx with it.
ConnectIn ==
    /\ pc = "connect_in"
    /\ \E ok \in BOOLEAN :
         IF ok
         THEN tx' = "live" /\ opened' = opened \cup {"conn_in"}
         ELSE tx' = "dropped" /\ opened' = opened
    /\ pc' = "connect_out"
    /\ UNCHANGED << result, args, stdout, roundVars, queue, nCalls, pushed,
                    returned, callMark, seenMark >>

\* let mut conn_out = midi_out.connect(out_port, "midir-test").unwrap();
ConnectOut ==
    /\ pc = "connect_out"
    /\ \E ok \in BOOLEAN :
         IF ok
         THEN /\ pc' = "round_start"
              /\ result' = result
              /\ opened' = opened \cup {"conn_out"}
         ELSE Fail("ConnectPanic") /\ opened' = opened
    /\ UNCHANGED << args, stdout, roundVars, bridgeVars >>

(***************************************************************************)
(* The MIDI input callback, lines 98-104 (library thread)                  *)
(***************************************************************************)
\* faulty variant: the velocity byte is not looked at
ForwardedAnyVelocity(message) ==
    /\ Len(message) = 3
    /\ message[1] = NOTE_ON \/ message[1] = NOTE_OFF

\* &[x, _, z] if (x == NOTE_ON || x == NOTE_OFF) && z != 0
Forwarded(message) ==
    /\ Len(message) = 3
    /\ message[1] = NOTE_ON \/ message[1] = NOTE_OFF
    /\ message[3] # 0

\* faulty variant: the channel hands out the newest event first
SendFront(q, x) == <<x>> \o q

\* tx.send(message[1]): the note goes to the back of the channel's queue
Send(q, x) == Append(q, x)

\* the callback runs while the connection holds the closure and the process
\* lives; rx is alive as long as main() runs, so tx.send never fails
InputCallback(message) ==
    /\ tx = "live"
    /\ pc # "done"
    /\ nCalls < MaxCalls
    /\ nCalls' = nCalls + 1
    /\ IF Forwarded(message)
       THEN /\ queue' = Send(queue, message[2])
            /\ pushed' = Append(pushed, message[2])
       ELSE UNCHANGED << queue, pushed >>
    /\ UNCHANGED << pc, result, args, opened, tx, stdout, returned, callMark,
                    seenMark, roundVars >>

(***************************************************************************)
(* The game loop, lines 109-170 (main thread)                              *)
(***************************************************************************)
\* println!(" ~~ Guess the note! ~~"); let guess_note = ...
RoundStart ==
    /\ pc = "round_start"
    /\ rounds < MaxRounds
    /\ \E k \in RandSamples :
         guess_note' = GuessNote(k, args.min_note, args.max_note)
    /\ rounds' = rounds + 1
    /\ stdout' = [kind |-> "banner"]
    /\ note' = NoNote
    /\ last' = NoNote
    /\ sent' = << >>
    /\ plays' = 0
    /\ captures' = 0
    /\ prompts' = 0
    /\ reads' = 0
    /\ nos' = 0
    /\ roundMark' = 0
    /\ capKind' = "none"
    /\ pc' = "play_on"
    /\ UNCHANGED << result, args, opened, bridgeVars >>

\* faulty variant: every message goes out as a note-on
OutMessageAlwaysOn(kind, n) == <<NOTE_ON, n, VELOCITY>>

\* the message of play_guess_note!($kind, $note): &[$kind, $note, VELOCITY]
OutMessage(kind, n) == <<kind, n, VELOCITY>>

\* faulty variant: a failed send is ignored and the round goes on to capture
SendErrorIgnored == pc' = "try_iter" /\ result' = result

\* conn_out.send(..).map_err(|_| anyhow!("cannot play note"))? on a failure
SendError == Fail("PlaybackError")

\* play_guess_note!(NOTE_ON, guess_note): conn_out.send(..).map_err(..)?
PlayNoteOn ==
    /\ pc = "play_on"
    /\ plays' = plays + 1
    /\ roundMark' = IF plays = 0 THEN Len(pushed) ELSE roundMark
    /\ \E ok \in BOOLEAN :
         IF ok
         THEN /\ sent' = Append(sent, OutMessage(NOTE_ON, guess_note))
              /\ pc' = "sleep"
              /\ result' = result
         ELSE SendError /\ sent' = sent
    /\ UNCHANGED << args, opened, stdout, bridgeVars, guess_note, note, last,
                    rounds, captures, prompts, reads, nos, capKind >>

\* sleep_ms(args.guess_play_duration_ms)
Sleep ==
    /\ pc = "sleep"
    /\ pc' = "play_off"
    /\ UNCHANGED << result, args, opened, stdout, bridgeVars, roundVars >>

\* faulty variant: the capture goes straight to rx.recv(), without the drain
CaptureStartRecvOnly == "recv"

\* capture_next_note!() begins with rx.try_iter().last() (line 118)
CaptureStart == "try_iter"

\* play_guess_note!(NOTE_OFF, guess_note); the statement after it is the
\* capture_next_note!() call (lines 139-141 and 152-154)
PlayNoteOff ==
    /\ pc = "play_off"
    /\ \E ok \in BOOLEAN :
         IF ok
         THEN /\ sent' = Append(sent, OutMessage(NOTE_OFF, guess_note))
              /\ pc' = CaptureStart
              /\ callMark' = Len(pushed)
              /\ result' = result
         ELSE SendError /\ sent' = sent /\ callMark' = callMark
    /\ UNCHANGED << args, opened, stdout, tx, queue, nCalls, pushed, returned,
                    seenMark, guess_note, note, last, rounds, plays, captures, prompts,
                    reads, nos, roundMark, capKind >>

\* faulty variant: the confirmation loop is entered whatever the mode
AfterCaptureAlwaysPrompt == "prompt"

\* where the loop goes once capture_next_note!() has produced a note
AfterCapture == IF args.non_interactive THEN "resolve" ELSE "prompt"

\* faulty variant: Iterator::next() instead of last(): the oldest queued note is kept
IterFirst(acc, x) == IF acc = NoNote THEN x ELSE acc

\* Iterator::last(): each item replaces the one remembered before
IterLast(acc, x) == x

\* rx.try_iter().last(): one try_recv per step.  A queued note is taken and
\* remembered; on the first empty try_recv the iterator ends and last() is
\* Some(x) (the capture returns x) or None (go on to rx.recv()).
TryIter ==
    /\ pc = "try_iter"
    /\ IF queue # << >>
       THEN /\ last' = IterLast(last, Head(queue))
            /\ queue' = Tail(queue)
            /\ UNCHANGED << pc, note, captures, returned, capKind, seenMark >>
       ELSE IF last # NoNote
       THEN /\ note' = last
            /\ captures' = captures + 1
            /\ returned' = Append(returned, Len(pushed) - Len(queue))
            /\ seenMark' = callMark
            /\ capKind' = "drain"
            /\ pc' = AfterCapture
            /\ last' = NoNote
            /\ queue' = queue
       ELSE /\ pc' = "recv"
            /\ UNCHANGED << queue, last, note, captures, returned, capKind,
                            seenMark >>
    /\ UNCHANGED << result, args, opened, stdout, tx, nCalls, pushed,
                    guess_note, sent, rounds, plays, prompts, reads, nos,
                    roundMark, callMark >>

\* faulty variant: recv hands out the newest queued note
RecvNewest(q) == q[Len(q)]

\* the value rx.recv() returns from a non-empty channel: the oldest one
RecvValue(q) == Head(q)

\* faulty variant: the RecvError is swallowed and the loop goes on to the next round
RecvErrorIgnored == pc' = "round_start" /\ result' = result

\* rx.recv()? on a disconnected, empty channel: Err(RecvError) leaves main()
RecvError == Fail("ChannelClosed")

\* rx.recv()?: the oldest queued note; Err(RecvError) when the queue is empty
\* and the sender is gone; blocked (not enabled) otherwise
Recv ==
    /\ pc = "recv"
    /\ IF queue # << >>
       THEN /\ note' = RecvValue(queue)
            /\ queue' = Tail(queue)
            /\ captures' = captures + 1
            /\ returned' = Append(returned, Len(pushed) - Len(queue) + 1)
            /\ seenMark' = callMark
            /\ capKind' = "recv"
            /\ pc' = AfterCapture
            /\ result' = result
       ELSE /\ tx = "dropped"
            /\ RecvError
            /\ UNCHANGED << queue, note, captures, returned, capKind, seenMark >>
    /\ UNCHANGED << args, opened, stdout, tx, nCalls, pushed, guess_note, last,
                    sent, rounds, plays, prompts, reads, nos, roundMark,
                    callMark >>

\* println!("Last played note is {}. Confirm your guess? y/n", ..)
Prompt ==
    /\ pc = "prompt"
    /\ stdout' = [kind |-> "confirm", played |-> note_number_to_sign(note)]
    /\ prompts' = prompts + 1
    /\ pc' = "read_confirm"
    /\ UNCHANGED << result, args, opened, bridgeVars, guess_note, note, last,
                    sent, rounds, plays, captures, reads, nos, roundMark,
                    capKind >>

\* faulty variant: an unconfirmed guess goes straight to the next capture
NotConfirmedNoReplay == "try_iter"

\* lines 152-154: an unconfirmed guess replays the target, then captures
NotConfirmed == "play_on"

\* if read_line!().trim().to_lowercase() == "y" { break; } when the console
\* delivers `line` (or the read fails)
ReadConfirmLine(line) ==
    /\ pc = "read_confirm"
    /\ reads' = reads + 1
    /\ IF line = IoError
       THEN Fail("IoError") /\ nos' = nos
       ELSE IF IsYes(line)
       THEN pc' = "resolve" /\ result' = result /\ nos' = nos
       ELSE /\ nos < MaxRetries
            /\ nos' = nos + 1
            /\ pc' = NotConfirmed
            /\ result' = result
    /\ UNCHANGED << args, opened, stdout, bridgeVars, guess_note, note, last,
                    sent, rounds, plays, captures, prompts, roundMark,
                    capKind >>

ReadConfirm == \E line \in ConfirmLines \cup {IoError} : ReadConfirmLine(line)

\* faulty variant: the two names of the "Incorrect" message are swapped
OutcomeSwapped(played, target) ==
    IF played = target
    THEN [kind |-> "correct", played |-> note_number_to_sign(played)]
    ELSE [kind |-> "incorrect", played |-> note_number_to_sign(target),
          right |-> note_number_to_sign(played)]

\* lines 158-169: what the round prints
Outcome(played, target) ==
    IF played = target
    THEN [kind |-> "correct", played |-> note_number_to_sign(played)]
    ELSE [kind |-> "incorrect", played |-> note_number_to_sign(played),
          right |-> note_number_to_sign(target)]

\* faulty variant: the loop is left after the outcome
AfterResolveExit == "done"

\* line 170: the end of the loop body goes back to its head
AfterResolve == "round_start"

Resolve ==
    /\ pc = "resolve"
    /\ stdout' = Outcome(note, guess_note)
    /\ pc' = AfterResolve
    /\ UNCHANGED << result, args, opened, bridgeVars, roundVars >>

Next ==
    \/ CheckRange
    \/ MidiNew
    \/ SelectPort
    \/ ConnectIn
    \/ ConnectOut
    \/ \E message \in RawMessages : InputCallback(message)
    \/ RoundStart
    \/ PlayNoteOn
    \/ Sleep
    \/ PlayNoteOff
    \/ TryIter
    \/ Recv
    \/ Prompt
    \/ ReadConfirm
    \/ Resolve

Spec == Init /\ [][Next]_vars

(***************************************************************************)
(* The note namer on its own: the first capture of an interactive round    *)
(* has returned the note n the player pressed, for every n in [0, 127];    *)
(* the prompt then prints its name.                                        *)
(***************************************************************************)
NameInit ==
    /\ pc = "prompt"
    /\ result = "running"
    /\ args = [min_note |-> 36, max_note |-> 96, non_interactive |-> FALSE]
    /\ opened = {"midi_in", "midi_out", "conn_in", "conn_out"}
    /\ tx = "live"
    /\ queue = << >>
    /\ guess_note = GuessNote(0, 36, 96)
    /\ note \in 0..127
    /\ last = NoNote
    /\ stdout = [kind |-> "banner"]
    /\ sent = << OutMessage(NOTE_ON, guess_note),
                 OutMessage(NOTE_OFF, guess_note) >>
    /\ rounds = 1
    /\ plays = 1
    /\ captures = 1
    /\ prompts = 0
    /\ reads = 0
    /\ nos = 0
    /\ nCalls = 1
    /\ pushed = << note >>
    /\ returned = << 1 >>
    /\ callMark = 0
    /\ seenMark = 0
    /\ roundMark = 0
    /\ capKind = "recv"

NameNext == Prompt

NameSpec == NameInit /\ [][NameNext]_vars

(***************************************************************************)
(* Properties                                                              *)
(***************************************************************************)
Last(s) == s[Len(s)]
IsOutcome(line) == line.kind \in {"correct", "incorrect"}
InCapture == pc \in {"try_iter", "recv"}

\* C1: a capture that finds N >= 1 queued notes never reaches the blocking
\* recv; when the drain returns it returns the most recently pushed note and
\* leaves the queue empty; no capture ever returns a note an earlier capture
\* returned; and a capture with an empty queue and a live producer does not
\* return until a push happens.
C1_DrainReturnsLastThenBlocks ==
    [][ /\ (pc = "try_iter" /\ (queue # << >> \/ last # NoNote))
              => pc' # "recv"
        /\ (pc = "try_iter" /\ pc' \notin {"try_iter", "recv"})
              => /\ pushed # << >>
                 /\ note' = Last(pushed)
                 /\ queue' = << >>
                 /\ returned' = Append(returned, Len(pushed))
        /\ (returned' # returned)
              => /\ returned' # << >>
                 /\ \A i \in 1..Len(returned) : returned[i] < Last(returned')
        /\ (pc = "recv" /\ queue = << >> /\ tx = "live")
              => (pc' = "recv" /\ captures' = captures /\ note' = note)
      ]_vars

\* C1 witness: the first capture drained two notes and returned the second;
\* the following capture of the same round is blocked in recv
C1_Witness ==
    /\ pc = "recv" /\ queue = << >> /\ tx = "live"
    /\ captures = 1 /\ capKind = "drain"
    /\ returned = <<2>> /\ Len(pushed) = 2 /\ note = pushed[2]
    /\ pushed[1] # pushed[2]

\* C2: recv is entered only with an empty queue; while the queue is empty and
\* the producer lives the main thread does not move; the queue only grows at
\* its back meanwhile; and the capture then returns the oldest queued note,
\* which is the first one pushed since the call blocked.
C2_BlocksUntilFirstEvent ==
    [][ /\ (pc = "try_iter" /\ pc' = "recv") => queue = << >>
        /\ (pc = "recv" /\ queue = << >> /\ tx = "live")
              => /\ pc' = "recv" /\ result' = "running"
                 /\ note' = note /\ captures' = captures
                 /\ stdout' = stdout /\ sent' = sent
        /\ (pc = "recv" /\ pc' = "recv")
              => /\ Len(queue') >= Len(queue)
                 /\ SubSeq(queue', 1, Len(queue)) = queue
                 /\ Len(pushed') - Len(queue') = Len(pushed) - Len(queue)
        /\ (pc = "recv" /\ pc' # "recv" /\ tx = "live")
              => /\ queue # << >>
                 /\ note' = Head(queue)
                 /\ Last(returned') = Len(pushed) - Len(queue) + 1
                 /\ pc' = AfterCapture /\ result' = "running"
      ]_vars

\* C2 witness: a capture blocked, two notes arrived, the first was returned
C2_Witness ==
    /\ capKind = "recv" /\ tx = "live" /\ pc = AfterCapture
    /\ Len(queue) = 1
    /\ note = pushed[Last(returned)]
    /\ note # Last(pushed)

\* C3 as stated: a message is enqueued iff it is a note-on, or a note-off with
\* a non-zero third byte
C3_ClaimedFilter(message) ==
    \/ message[1] = NOTE_ON
    \/ message[1] = NOTE_OFF /\ Len(message) = 3 /\ message[3] # 0

C3_Original ==
    [][ \A message \in RawMessages :
          InputCallback(message)
            => IF C3_ClaimedFilter(message)
               THEN queue' = Append(queue, message[2])
               ELSE queue' = queue
      ]_vars

\* C3 (amended): the callback enqueues the second byte iff the message has
\* exactly three bytes, its status is note-on or note-off, and its third byte
\* is non-zero; any other message leaves the queue as it was.
C3_FilterNonZeroVelocity ==
    [][ \A message \in RawMessages :
          InputCallback(message)
            => IF /\ Len(message) = 3
                  /\ message[1] \in {NOTE_ON, NOTE_OFF}
                  /\ message[3] > 0
               THEN queue' = Append(queue, message[2])
                    /\ pushed' = Append(pushed, message[2])
               ELSE queue' = queue /\ pushed' = pushed
      ]_vars

\* C3 witness: three messages were delivered and exactly one was forwarded
C3_Witness == nCalls = 3 /\ Len(pushed) = 1 /\ Len(queue) = 1

\* C4: with the producer dropped, a capture can only end by main() failing
\* with ChannelClosed; it returns no note, prints nothing, starts no round;
\* and once main() has ended nothing happens any more.
C4_ChannelClosedIsFatal ==
    [][ /\ (tx = "dropped" /\ InCapture)
              => /\ pc' \in {"try_iter", "recv", "done"}
                 /\ pc' = "done" => result' = "ChannelClosed"
                 /\ captures' = captures /\ note' = note
                 /\ stdout' = stdout /\ rounds' = rounds /\ sent' = sent
        /\ (result' = "ChannelClosed")
              => (tx = "dropped" /\ pc' = "done" /\ ~IsOutcome(stdout'))
        /\ (pc = "done") => (pc' = "done" /\ stdout' = stdout
                             /\ rounds' = rounds /\ sent' = sent)
      ]_vars

\* C4 witness: the input connection failed and the first capture ended main()
C4_Witness ==
    /\ result = "ChannelClosed" /\ pc = "done" /\ tx = "dropped"
    /\ rounds = 1 /\ captures = 0 /\ stdout.kind = "banner"

\* C5: an interactive round that is about to be resolved after k non-"y"
\* answers has made 1 + k playbacks (two sends each), 1 + k captures and
\* 1 + k prompts, and `note` is the note the last capture returned; the
\* outcome printed is computed from that note.
C5_InteractiveReplayPerNo ==
    /\ (~args.non_interactive /\ pc = "resolve")
          => /\ plays = 1 + nos
             /\ captures = 1 + nos
             /\ prompts = 1 + nos
             /\ Len(sent) = 2 * (1 + nos)
             /\ returned # << >>
             /\ note = pushed[Last(returned)]
    /\ (~args.non_interactive /\ pc = "round_start" /\ rounds > 0)
          => /\ plays = 1 + nos /\ captures = 1 + nos
             /\ stdout = Outcome(pushed[Last(returned)], guess_note)

\* C5 witness: two non-"y" answers, then "y", with a last capture that differs
\* from the one before it
C5_Witness ==
    /\ ~args.non_interactive /\ pc = "resolve" /\ nos = 2
    /\ Len(returned) >= 2
    /\ pushed[returned[Len(returned) - 1]] # note

\* C6: after a round is resolved the line printed is "Correct" iff the
\* accepted note equals the target; otherwise it is "Incorrect" naming the
\* played note first and the target second.
C6_OutcomeIffEqual ==
    (pc = "round_start" /\ rounds > 0)
       => /\ IsOutcome(stdout)
          /\ stdout.kind = "correct" <=> note = guess_note
          /\ stdout.played = note_number_to_sign(note)
          /\ stdout.kind = "incorrect"
                => stdout.right = note_number_to_sign(guess_note)

\* C6 witness: an "Incorrect" line whose two names differ
C6_Witness ==
    /\ pc = "round_start" /\ stdout.kind = "incorrect"
    /\ stdout.played # stdout.right

\* C7: in non-interactive mode a round never prompts or reads the console and
\* makes at most one playback and one capture; when it is resolved it has made
\* exactly one of each and `note` is the note that capture returned.
C7_NonInteractiveSinglePass ==
    (args.non_interactive /\ rounds > 0)
       => /\ prompts = 0 /\ reads = 0 /\ nos = 0
          /\ plays <= 1 /\ captures <= 1
          /\ stdout.kind # "confirm"
          /\ pc \notin {"prompt", "read_confirm"}
          /\ (pc = "resolve" \/ (pc = "round_start" /\ IsOutcome(stdout)))
                => /\ plays = 1 /\ captures = 1 /\ Len(sent) = 2
                   /\ note = pushed[Last(returned)]

\* C7 witness: the second non-interactive round has been resolved
C7_Witness ==
    /\ args.non_interactive /\ rounds = 2 /\ pc = "round_start"
    /\ IsOutcome(stdout) /\ plays = 1 /\ captures = 1

\* the target generation alone, on every non-empty range of the grid
GuessNoteInRangeOnGrid ==
    \A lo \in GridNotes, hi \in GridNotes, k \in RandSamples :
        lo <= hi => (lo <= GuessNote(k, lo, hi) /\ GuessNote(k, lo, hi) <= hi)

\* C8: from the moment a round has a target, min_note <= target <= max_note,
\* and the generation yields such a target for every range min_note <=
\* max_note of the grid, a range of one note included.
C8_TargetInRange ==
    /\ (guess_note # NoNote)
          => /\ args.min_note <= args.max_note
             /\ args.min_note <= guess_note
             /\ guess_note <= args.max_note
    /\ GuessNoteInRangeOnGrid

\* C8 witness: a target at the upper end of a range of more than one note
C8_Witness ==
    /\ guess_note # NoNote /\ args.min_note < args.max_note
    /\ guess_note = args.max_note

\* C9 as stated: with min_note = 36 and max_note = 96 the target is in
\* [36, 96), so 96 is never the target
C9_Never96 ==
    (args.min_note = 36 /\ args.max_note = 96 /\ guess_note # NoNote)
       => (36 <= guess_note /\ guess_note < 96)

\* C10: main() fails with the configuration error iff min_note > max_note,
\* and then nothing has been opened, printed or sent and no round started;
\* a program with min_note > max_note never gets past the range check.
C10_EmptyRangeFailsFirst ==
    /\ (result = "ConfigurationError")
          => /\ args.min_note > args.max_note
             /\ pc = "done"
             /\ opened = {} /\ tx = "none"
             /\ sent = << >> /\ rounds = 0 /\ stdout.kind = "nothing"
    /\ (args.min_note > args.max_note)
          => /\ pc \in {"check_range", "done"}
             /\ pc = "done" => result = "ConfigurationError"
             /\ opened = {} /\ rounds = 0 /\ sent = << >>
    /\ (args.min_note <= args.max_note /\ pc # "check_range")
          => (pc = "done" => result # "ConfigurationError")

\* C10 witness: min_note = 96, max_note = 36 ended main() at the range check
C10_Witness ==
    /\ result = "ConfigurationError" /\ pc = "done"
    /\ args.min_note = 96 /\ args.max_note = 36

\* the main thread is past a completed playback: in a capture, at the
\* confirmation prompt, or about to print the outcome
AfterPlayback ==
    pc \in {"try_iter", "recv", "prompt", "read_confirm", "resolve"}

\* C11: the messages sent in a round are, alternately, a note-on and a
\* note-off, each for the round's target at the fixed velocity; a note-off is
\* sent only after the sleep that follows its note-on; and during a capture,
\* at a prompt and at the outcome every note-on has its note-off (two
\* messages per playback), while between the two sends exactly one note-on is
\* unmatched.
C11_PlaybackOnSleepOff ==
    /\ [] /\ \A i \in 1..Len(sent) :
               sent[i] = << IF i % 2 = 1 THEN NOTE_ON ELSE NOTE_OFF,
                            guess_note, VELOCITY >>
          /\ (AfterPlayback \/ pc = "play_on") => Len(sent) = 2 * plays
          /\ pc \in {"sleep", "play_off"} => Len(sent) = 2 * plays - 1
    /\ [][ /\ (pc' = "play_off" /\ pc # "play_off") => pc = "sleep"
           /\ (pc' = "sleep" /\ pc # "sleep")
                 => (pc = "play_on" /\ sent' = Append(sent, Last(sent'))
                     /\ Last(sent')[1] = NOTE_ON)
           /\ (sent' # sent /\ pc # "play_on" /\ pc # "round_start")
                 => (pc = "play_off" /\ sent' = Append(sent, Last(sent'))
                     /\ Last(sent')[1] = NOTE_OFF)
         ]_vars

\* C11 witness: a replay has completed: two playbacks, four messages, and the
\* main thread waits at the second prompt
C11_Witness ==
    /\ pc = "read_confirm" /\ plays = 2 /\ Len(sent) = 4
    /\ sent[3] = <<NOTE_ON, guess_note, VELOCITY>>
    /\ sent[4] = <<NOTE_OFF, guess_note, VELOCITY>>

\* C12: a playback step either sends its message or ends main() with
\* PlaybackError, and then nothing more is sent, captured or printed and no
\* round starts: main() has ended.
C12_PlaybackErrorIsFatal ==
    [][ /\ (pc \in {"play_on", "play_off"} /\ pc' # pc)
              => \/ (Len(sent') = Len(sent) + 1 /\ result' = "running"
                     /\ pc' \in {"sleep", "try_iter"})
                 \/ (pc' = "done" /\ result' = "PlaybackError"
                     /\ sent' = sent /\ captures' = captures
                     /\ note' = note /\ stdout' = stdout
                     /\ rounds' = rounds /\ ~IsOutcome(stdout'))
        /\ (result' = "PlaybackError") => pc \in {"play_on", "play_off"}
        /\ (result = "PlaybackError")
              => (pc = "done" /\ pc' = "done" /\ sent' = sent
                  /\ captures' = captures /\ stdout' = stdout
                  /\ rounds' = rounds /\ result' = result)
      ]_vars

\* C12 witness: the note-off send of a replay failed after its note-on
C12_Witness ==
    /\ result = "PlaybackError" /\ pc = "done"
    /\ plays = 2 /\ Len(sent) = 3 /\ Last(sent)[1] = NOTE_ON

\* C13 as stated: the name is the pitch class of the table followed by the
\* octave, so that name(0) = "C-1", name(60) = "C4", name(127) = "G9"
C13_ClaimedName(n) ==
    << "C", "C#", "D", "D#", "E", "F", "F#", "G", "G#", "A", "A#", "B" >>[(n % 12) + 1]
        \o ToString((n \div 12) - 1)

C13_Original ==
    (stdout.kind = "confirm") => stdout.played = C13_ClaimedName(note)

\* C13 (amended): the name is the pitch class at index n mod 12, right-aligned
\* in two characters (a one-letter pitch class gets a leading space), followed
\* by the signed octave n / 12 - 1: name(0) = " C-1", name(60) = " C4",
\* name(61) = "C#4", name(127) = " G9".
C13_NamePaddedPitchThenOctave ==
    (stdout.kind = "confirm")
       => /\ stdout.played =
               << " C", "C#", " D", "D#", " E", " F", "F#", " G", "G#", " A",
                  "A#", " B" >>[(note % 12) + 1] \o ToString((note \div 12) - 1)
          /\ note = 0 => stdout.played = " C-1"
          /\ note = 60 => stdout.played = " C4"
          /\ note = 61 => stdout.played = "C#4"
          /\ note = 127 => stdout.played = " G9"

\* C13 witness: the prompt has named note 127
C13_Witness ==
    stdout.kind = "confirm" /\ note = 127 /\ stdout.played = " G9"

\* C14 as stated: once a round has started, main() ends only with
\* PlaybackError or ChannelClosed
C14_Original ==
    (pc = "done" /\ rounds > 0)
       => result \in {"PlaybackError", "ChannelClosed"}

\* C14 (amended): a resolved round is always followed by the start of a new
\* round; once a round has started, main() ends only with PlaybackError,
\* ChannelClosed, or the error of a failed console read at the confirmation
\* prompt of an interactive round; no line that was read ends the game.
C14_LoopEndsOnlyByError ==
    /\ [] /\ (pc = "done" /\ rounds > 0)
               => result \in {"PlaybackError", "ChannelClosed", "IoError"}
          /\ (result = "IoError" /\ rounds > 0)
               => (~args.non_interactive /\ reads >= 1 /\ prompts >= 1)
    /\ [][ /\ (pc = "resolve" /\ pc' # pc)
                 => (pc' = "round_start" /\ result' = "running")
           /\ (pc = "round_start" /\ pc' # pc)
                 => (pc' = "play_on" /\ rounds' = rounds + 1
                     /\ result' = "running")
           /\ (rounds > 0 /\ pc # "done" /\ pc' = "done")
                 => \/ pc \in {"play_on", "play_off"}
                       /\ result' = "PlaybackError"
                    \/ pc = "recv" /\ result' = "ChannelClosed"
                    \/ pc = "read_confirm" /\ result' = "IoError"
           /\ \A line \in ConfirmLines :
                 ReadConfirmLine(line)
                    => (pc' \in {"resolve", "play_on"} /\ result' = "running")
         ]_vars

\* C14 witness: the console read of the second confirmation of a round failed
C14_Witness ==
    /\ pc = "done" /\ result = "IoError"
    /\ rounds > 0 /\ reads = 2 /\ nos = 1

\* C15: after the input connection failed to open, no round is started and
\* no target note is sent
C15_NoRoundAfterFailedInputConnect ==
    (tx = "dropped") => (rounds = 0 /\ sent = << >>)

\* C16: the note that resolves a round was pushed by the input callback after
\* the round's first note-on of the target was sent
C16_ResolvingNotePushedAfterPlayback ==
    (pc = "resolve") => (Last(returned) > roundMark)

\* number of events taken off the channel so far
consumed == Len(pushed) - Len(queue)

\* C17: every event queued before a capture call started has been taken off
\* the channel when that call returns, and no later call returns it; a call
\* that returns through the drain leaves the channel empty at that moment.
C17_CaptureConsumesAllQueuedBefore ==
    /\ [] /\ seenMark <= callMark
          /\ seenMark <= consumed
    /\ [][ /\ Len(pushed') - Len(queue') >= consumed
           /\ callMark' >= callMark
           /\ seenMark' >= seenMark
           /\ returned' # returned
                => /\ Len(pushed') - Len(queue') >= callMark
                   /\ seenMark' = callMark
                   /\ Last(returned') > seenMark
                   /\ pc = "try_iter" => (queue' = << >> /\ capKind' = "drain")
         ]_vars

\* C17 witness: two events were queued when the latest capture call began,
\* and that call has returned through the drain
C17_Witness ==
    /\ Len(returned) >= 2
    /\ seenMark = callMark
    /\ callMark >= returned[Len(returned) - 1] + 2
    /\ capKind = "drain"
    /\ pc \in {"prompt", "resolve"}
    /\ queue = << >>

\* C18: the notes returned by successive captures are a subsequence of the
\* notes the callback forwarded, in the same order: each returned note is a
\* forwarded event, the returned events have strictly increasing positions
\* (none twice, none older than an earlier returned one), and the channel
\* holds the forwarded events not yet taken, in the order they were forwarded.
C18_ReturnedIsOrderedSubsequence ==
    /\ [] /\ \A i \in 1..Len(returned) : returned[i] \in 1..consumed
          /\ \A i, j \in 1..Len(returned) : i < j => returned[i] < returned[j]
          /\ queue = SubSeq(pushed, consumed + 1, Len(pushed))
          /\ pc \in {"prompt", "read_confirm", "resolve"}
                => note = pushed[Last(returned)]
    /\ [][ /\ returned' # returned
                => /\ returned' = Append(returned, Last(returned'))
                   /\ note' = pushed'[Last(returned')]
           /\ pushed' # pushed
                => /\ Len(pushed') = Len(pushed) + 1
                   /\ SubSeq(pushed', 1, Len(pushed)) = pushed
         ]_vars

\* C18 witness: three events were forwarded under interleaving; two captures
\* have returned the first and the third of them, which are different notes
C18_Witness ==
    /\ Len(pushed) = 3
    /\ returned = << 1, 3 >>
    /\ pushed[1] # pushed[3]
    /\ note = pushed[3]
    /\ pc \in {"prompt", "resolve"}

\* C19: in interactive mode an answer confirms only when it is "y" after
\* trimming and lower-casing; every other answer (empty line, end of input,
\* "n", "yes") leads to one replay of the unchanged target, one capture and a
\* new prompt, so at the k-th prompt of a round there were k playbacks of the
\* round's target and k captures; the target changes only when a round
\* starts, and a round is resolved only from a confirmation read.
C19_NonYesReplaysAndReprompts ==
    /\ [] /\ (~args.non_interactive /\ pc \in {"prompt", "read_confirm"})
               => /\ plays = nos + 1
                  /\ captures = nos + 1
                  /\ reads = nos
                  /\ prompts = IF pc = "prompt" THEN nos ELSE nos + 1
                  /\ Len(sent) = 2 * (nos + 1)
          /\ \A i \in 1..Len(sent) : sent[i][2] = guess_note
    /\ [][ /\ rounds' = rounds => guess_note' = guess_note
           /\ (~args.non_interactive /\ pc # "resolve" /\ pc' = "resolve")
                 => pc = "read_confirm"
           /\ \A line \in ConfirmLines :
                 ReadConfirmLine(line)
                    => IF line \in { <<"y", "\n">>, <<"Y", "\n">>,
                                     <<" ", "y", " ", "\r", "\n">> }
                       THEN pc' = "resolve" /\ nos' = nos
                       ELSE /\ pc' = "play_on"
                            /\ nos' = nos + 1
                            /\ result' = "running"
                            /\ sent' = sent /\ plays' = plays
                            /\ captures' = captures /\ prompts' = prompts
         ]_vars

\* C19 witness: the third confirmation prompt of an interactive round, after
\* two answers other than "y"
C19_Witness ==
    /\ ~args.non_interactive
    /\ pc = "read_confirm"
    /\ nos = 2 /\ reads = 2 /\ prompts = 3
    /\ plays = 3 /\ captures = 3
    /\ stdout.kind = "confirm"

=============================================================================
